---- MODULE Spec2Model ----
(***************************************************************************)
(* A model of the PDF summariser bot: the TinyDB store (users and usage    *)
(* tables), the feature flags, the subscription engine                     *)
(* (subscription_manager.py, migrations.py) and the message path of app.py *)
(* (the Slack mention handler and the /slack/events endpoint).             *)
(*                                                                         *)
(* Time is counted in ticks, TicksPerDay ticks to the day, so that the     *)
(* floor of Python's timedelta.days is visible.  A calendar month is       *)
(* DaysPerMonth days.                                                      *)
(***************************************************************************)
EXTENDS Integers, Sequences, FiniteSets, TLC

VARIABLES
    flags,      \* the ENABLE_<FLAG> environment variables that are "true"
    users,      \* TinyDB table 'users': a list of documents
    usage,      \* TinyDB table 'usage': number of documents per (user, team, month)
    now,        \* datetime.now(), in ticks
    last,       \* the last call of the subscription engine and what it returned
    ops,        \* number of operations performed so far
    deliveries, \* the events delivered to the bot, in order of arrival
    disk,       \* the temporary files temp_<file id>.pdf that exist
    cookies     \* the cookies the browser of a user holds for the web endpoints

vars == <<flags, users, usage, now, last, ops, deliveries, disk, cookies>>

----------------------------------------------------------------------------
(* Bounds of the model *)

TicksPerDay == 2
DaysPerMonth == 30
MaxOps == 4
MaxLimitOps == 3
MaxDeliveries == 2
MaxMonths == 1

TicksPerMonth == DaysPerMonth * TicksPerDay

----------------------------------------------------------------------------
(* Feature flags: feature_flags.py *)

SUBSCRIPTION_SYSTEM == "SUBSCRIPTION_SYSTEM"
TRIAL_PERIOD == "TRIAL_PERIOD"
USAGE_TRACKING == "USAGE_TRACKING"
SUBSCRIPTION_LIMITS_FLAG == "SUBSCRIPTION_LIMITS"
SUBSCRIPTION_UPGRADE == "SUBSCRIPTION_UPGRADE"

FlagNames == {SUBSCRIPTION_SYSTEM, TRIAL_PERIOD, USAGE_TRACKING,
              SUBSCRIPTION_LIMITS_FLAG, SUBSCRIPTION_UPGRADE}

is_enabled(flag_name) == flag_name \in flags

is_subscription_enabled == is_enabled(SUBSCRIPTION_SYSTEM)

is_trial_enabled == is_subscription_enabled /\ is_enabled(TRIAL_PERIOD)

----------------------------------------------------------------------------
(* Values of the documents *)

\* a key the document does not have
ABSENT == "<absent>"

\* a timestamp field: a key the document does not have, Python's None, or a time
NoKey == [kind |-> "absent", at |-> 0]
NoneTime == [kind |-> "none", at |-> 0]
At(t) == [kind |-> "time", at |-> t]

\* a limit: float('inf') or a number
Infinite == [inf |-> TRUE, n |-> 0]
Finite(n) == [inf |-> FALSE, n |-> n]

\* a cookie value: none, a JWT made by create_jwt, or any other string
NoToken == [kind |-> "none", sub |-> "", email |-> "", exp |-> 0]
Garbage == [kind |-> "garbage", sub |-> "", email |-> "", exp |-> 0]

\* the cookies of a browser that has not visited the site
NoCookies == [access_token |-> NoToken, session |-> NoToken]

\* timedelta.days of a difference of d ticks: the floor of d / TicksPerDay
DaysOf(d) == d \div TicksPerDay

\* datetime.now().strftime('%Y-%m')
MonthOf(t) == t \div TicksPerMonth

----------------------------------------------------------------------------
(* The users table *)

Matching(us, user_id, team_id) ==
    {i \in 1..Len(us) : us[i].user_id = user_id /\ us[i].team_id = team_id}

HasUser(us, user_id, team_id) == Matching(us, user_id, team_id) # {}

\* users.get(cond): the first matching document
FirstUser(us, user_id, team_id) ==
    LET m == Matching(us, user_id, team_id)
    IN  us[CHOOSE i \in m : \A j \in m : i <= j]

\* the document get_user_status inserts for a user it does not know
NewUser(user_id, team_id) ==
    [user_id |-> user_id, team_id |-> team_id, email |-> ABSENT,
     status |-> "free",
     subscription_status |-> ABSENT, subscription_tier |-> ABSENT,
     trial_start_date |-> NoKey, trial_start |-> NoKey, trial_end |-> NoKey,
     subscription_start_date |-> NoKey, subscription_end_date |-> NoKey]

\* app.get_user_status(user_id, team_id=team_id): the table after the call
get_user_status(us, user_id, team_id) ==
    IF HasUser(us, user_id, team_id) THEN us
    ELSE Append(us, NewUser(user_id, team_id))

\* get_user_status with an email as it would be if a changed email were stored
\* in a new document
get_user_status_email_reinserts(us, user_id, email, team_id) ==
    IF ~HasUser(us, user_id, team_id)
    THEN Append(us, [NewUser(user_id, team_id) EXCEPT !.email = email])
    ELSE IF email # ABSENT /\ FirstUser(us, user_id, team_id).email # email
    THEN Append(us, [NewUser(user_id, team_id) EXCEPT !.email = email])
    ELSE us

\* app.get_user_status(user_id, email, team_id): the table after the call
get_user_status_email(us, user_id, email, team_id) ==
    IF ~HasUser(us, user_id, team_id)
    THEN Append(us, [NewUser(user_id, team_id) EXCEPT !.email = email])
    ELSE IF email # ABSENT /\ FirstUser(us, user_id, team_id).email # email
    THEN [i \in 1..Len(us) |->
            IF us[i].user_id = user_id /\ us[i].team_id = team_id
            THEN [us[i] EXCEPT !.email = email] ELSE us[i]]
    ELSE us

----------------------------------------------------------------------------
(* The usage table.  No code reads anything of a usage document but its    *)
(* user_id, team_id and month, and the table is only counted by that key,  *)
(* so the table is kept as the number of documents per key.                *)

UsageKey(user_id, team_id, month) == <<user_id, team_id, month>>

\* usage.count((Usage.user_id == ..) & (Usage.team_id == ..) & (Usage.month == ..))
UsageCount(ug, user_id, team_id, month) ==
    IF UsageKey(user_id, team_id, month) \in DOMAIN ug
    THEN ug[UsageKey(user_id, team_id, month)] ELSE 0

\* usage.insert(document)
UsageInsert(ug, user_id, team_id, month) ==
    LET k == UsageKey(user_id, team_id, month)
    IN  [x \in DOMAIN ug \cup {k} |->
            IF x = k THEN UsageCount(ug, user_id, team_id, month) + 1 ELSE ug[x]]

\* usage.truncate()
EmptyUsage == [x \in {} |-> 0]

----------------------------------------------------------------------------
(* The store after app.py is loaded: init_db *)

AdminUser ==
    [user_id |-> "admin", team_id |-> "admin_workspace",
     email |-> "admin@example.com", status |-> "pro",
     subscription_status |-> ABSENT, subscription_tier |-> ABSENT,
     trial_start_date |-> NoKey, trial_start |-> NoKey, trial_end |-> NoKey,
     subscription_start_date |-> NoKey, subscription_end_date |-> NoKey]

init_db_users == <<AdminUser>>

init_db_usage(t) == UsageInsert(EmptyUsage, "admin", "admin_workspace", MonthOf(t))

----------------------------------------------------------------------------
(* migrations.py *)

TrialDays == 7
TRIAL_PERIOD_DAYS == 7
SubscriptionDays == 30

\* users.update(fields, User.user_id == user_id): every document of that user_id,
\* whatever its team
MigrateOne(us, user, t) ==
    [i \in 1..Len(us) |->
        IF us[i].user_id = user.user_id
        THEN [us[i] EXCEPT
                !.subscription_status =
                    IF user.status # "pro" THEN "trial" ELSE "active",
                !.subscription_tier =
                    IF user.status = "pro" THEN "premium" ELSE "standard",
                !.trial_start_date = At(t),
                !.subscription_start_date = NoneTime,
                !.subscription_end_date = NoneTime]
        ELSE us[i]]

\* the loop over users.all(): the documents read before the loop decide which
\* updates are made
RECURSIVE MigrateFrom(_, _, _, _)
MigrateFrom(all, i, us, t) ==
    IF i > Len(all) THEN us
    ELSE MigrateFrom(all, i + 1,
            IF all[i].subscription_status = ABSENT
            THEN MigrateOne(us, all[i], t) ELSE us,
            t)

migrate_subscription_schema(us, t) == MigrateFrom(us, 1, us, t)

initialize_trial_period(us, user_id, team_id, t) ==
    [i \in 1..Len(us) |->
        IF us[i].user_id = user_id /\ us[i].team_id = team_id
        THEN [us[i] EXCEPT
                !.subscription_status = "trial",
                !.subscription_tier = "trial",
                !.trial_start = At(t),
                !.trial_end = At(t + TRIAL_PERIOD_DAYS * TicksPerDay)]
        ELSE us[i]]

NotInTrial == [in_trial |-> FALSE, days_remaining |-> 0]

check_trial_status(us, user_id, team_id, t) ==
    IF ~HasUser(us, user_id, team_id) THEN NotInTrial
    ELSE LET user == FirstUser(us, user_id, team_id)
         IN  IF user.subscription_status # "trial" THEN NotInTrial
             \* user['trial_start_date'] of a document without the key: KeyError,
             \* caught by the except clause
             ELSE IF user.trial_start_date.kind # "time" THEN NotInTrial
             ELSE [in_trial |-> TRUE,
                   days_remaining |->
                       DaysOf(user.trial_start_date.at + TrialDays * TicksPerDay - t)]

\* update_subscription as it would be if it wrote the tier and the dates but
\* left subscription_status as it was
update_subscription_keeps_status(us, user_id, team_id, tier, status, t) ==
    [i \in 1..Len(us) |->
        IF us[i].user_id = user_id /\ us[i].team_id = team_id
        THEN [us[i] EXCEPT
                !.subscription_tier = tier,
                !.subscription_start_date = At(t),
                !.subscription_end_date = At(t + SubscriptionDays * TicksPerDay)]
        ELSE us[i]]

\* update_subscription as it would be if it carried the remaining time of the
\* previous period over into the new one
update_subscription_prorated(us, user_id, team_id, tier, status, t) ==
    [i \in 1..Len(us) |->
        IF us[i].user_id = user_id /\ us[i].team_id = team_id
        THEN [us[i] EXCEPT
                !.subscription_status = status,
                !.subscription_tier = tier,
                !.subscription_start_date = At(t),
                !.subscription_end_date =
                    IF @.kind = "time" /\ @.at > t
                    THEN At(@.at + SubscriptionDays * TicksPerDay)
                    ELSE At(t + SubscriptionDays * TicksPerDay)]
        ELSE us[i]]

update_subscription(us, user_id, team_id, tier, status, t) ==
    [i \in 1..Len(us) |->
        IF us[i].user_id = user_id /\ us[i].team_id = team_id
        THEN [us[i] EXCEPT
                !.subscription_status = status,
                !.subscription_tier = tier,
                !.subscription_start_date = At(t),
                !.subscription_end_date = At(t + SubscriptionDays * TicksPerDay)]
        ELSE us[i]]

----------------------------------------------------------------------------
(* subscription_manager.py *)

SUBSCRIPTION_LIMITS ==
    [trial |-> Infinite, standard |-> Finite(100),
     premium |-> Finite(1000), free |-> Finite(10)]

\* what a function wrapped by require_flag returns when its flag is disabled
NoneResult ==
    [kind |-> "None", limit |-> Finite(0), status |-> ABSENT, tier |-> ABSENT,
     has_days |-> FALSE, days_remaining |-> 0]

FreeLimits ==
    [kind |-> "dict", limit |-> SUBSCRIPTION_LIMITS["free"], status |-> "free",
     tier |-> ABSENT, has_days |-> FALSE, days_remaining |-> 0]

get_subscription_limits(user_id, team_id) ==
    IF ~is_enabled(SUBSCRIPTION_SYSTEM) THEN NoneResult
    ELSE IF ~HasUser(users, user_id, team_id) THEN FreeLimits
    ELSE LET user == FirstUser(users, user_id, team_id)
             trial_status == check_trial_status(users, user_id, team_id, now)
             subscription_status ==
                 IF user.subscription_status = ABSENT THEN "free"
                 ELSE user.subscription_status
             subscription_tier ==
                 IF user.subscription_tier = ABSENT THEN "standard"
                 ELSE user.subscription_tier
         IN  IF is_trial_enabled /\ trial_status.in_trial
             THEN [kind |-> "dict", limit |-> SUBSCRIPTION_LIMITS["trial"],
                   status |-> "trial", tier |-> ABSENT, has_days |-> TRUE,
                   days_remaining |-> trial_status.days_remaining]
             \* SUBSCRIPTION_LIMITS[subscription_tier] of an unknown tier:
             \* KeyError, caught by the except clause
             ELSE IF subscription_tier \notin DOMAIN SUBSCRIPTION_LIMITS
             THEN FreeLimits
             ELSE [kind |-> "dict", limit |-> SUBSCRIPTION_LIMITS[subscription_tier],
                   status |-> subscription_status, tier |-> subscription_tier,
                   has_days |-> FALSE, days_remaining |-> 0]

\* check_usage_limit as it would be if it compared with <= instead of <
check_usage_limit_inclusive(user_id, team_id) ==
    IF ~is_enabled(SUBSCRIPTION_LIMITS_FLAG) THEN "None"
    ELSE IF ~is_subscription_enabled THEN "True"
    ELSE LET limits == get_subscription_limits(user_id, team_id)
             current_month == MonthOf(now)
             monthly_usage == UsageCount(usage, user_id, team_id, current_month)
         IN  IF limits.limit.inf THEN "True"
             ELSE IF monthly_usage <= limits.limit.n THEN "True" ELSE "False"

\* "None", "True" or "False"
check_usage_limit(user_id, team_id) ==
    IF ~is_enabled(SUBSCRIPTION_LIMITS_FLAG) THEN "None"
    ELSE IF ~is_subscription_enabled THEN "True"
    ELSE LET limits == get_subscription_limits(user_id, team_id)
             current_month == MonthOf(now)
             monthly_usage == UsageCount(usage, user_id, team_id, current_month)
         IN  IF limits.limit.inf THEN "True"
             ELSE IF monthly_usage < limits.limit.n THEN "True" ELSE "False"

\* what handle_subscription_change returns: "None", "True" or "False"
handle_subscription_change_result ==
    IF ~is_enabled(SUBSCRIPTION_UPGRADE) THEN "None"
    ELSE IF ~is_subscription_enabled THEN "False"
    ELSE "True"

\* the users table after handle_subscription_change
handle_subscription_change(user_id, team_id, new_tier) ==
    IF handle_subscription_change_result = "True"
    THEN update_subscription(users, user_id, team_id, new_tier, "active", now)
    ELSE users

\* the users table after get_subscription_limits as it would be if the read
\* created the record it does not find, as get_user_status does
get_subscription_limits_creates(us, user_id, team_id) ==
    get_user_status(us, user_id, team_id)

\* the users table after get_subscription_limits: users.get is its only access
get_subscription_limits_users(us, user_id, team_id) == us

\* what check_subscription_expiry returns: None or the warning payload
NoExpiry == [kind |-> "None", days_remaining |-> 0, tier |-> ABSENT, end_date |-> 0]

ExpiryWarningDays == 3

\* the warning for the first document of the account, given when at most
\* threshold whole days remain
ExpiryWithin(user_id, team_id, threshold) ==
    IF ~is_enabled(SUBSCRIPTION_SYSTEM) THEN NoExpiry
    ELSE IF ~HasUser(users, user_id, team_id) THEN NoExpiry
    ELSE LET user == FirstUser(users, user_id, team_id)
             end_date == user.subscription_end_date
             days_remaining == DaysOf(end_date.at - now)
         IN  IF user.subscription_status # "active" THEN NoExpiry
             \* user['subscription_end_date'] of a document without the key, or
             \* fromisoformat(None): an exception, caught by the except clause
             ELSE IF end_date.kind # "time" THEN NoExpiry
             ELSE IF days_remaining <= threshold
             THEN [kind |-> "dict", days_remaining |-> days_remaining,
                   tier |-> user.subscription_tier, end_date |-> end_date.at]
             ELSE NoExpiry

\* check_subscription_expiry as it would be if it warned with 4 days left
check_subscription_expiry_four_days(user_id, team_id) ==
    ExpiryWithin(user_id, team_id, ExpiryWarningDays + 1)

\* check_subscription_expiry as it would be if it warned during the whole
\* subscription period
check_subscription_expiry_whole_period(user_id, team_id) ==
    ExpiryWithin(user_id, team_id, SubscriptionDays)

check_subscription_expiry(user_id, team_id) ==
    ExpiryWithin(user_id, team_id, ExpiryWarningDays)

\* a read of the store that raises inside a quota read: none, every read of the
\* users table, or the count of the usage table
StoreFaults == {"none", "users", "usage"}

\* get_subscription_limits when reads of the store may raise: the except clause
\* answers as for the free tier
get_subscription_limits_faulted(user_id, team_id, fault) ==
    IF ~is_enabled(SUBSCRIPTION_SYSTEM) THEN NoneResult
    ELSE IF fault = "users" THEN FreeLimits
    ELSE get_subscription_limits(user_id, team_id)

\* check_usage_limit when reads of the store may raise: its except clause
\* returns False
check_usage_limit_faulted(user_id, team_id, fault) ==
    IF ~is_enabled(SUBSCRIPTION_LIMITS_FLAG) THEN "None"
    ELSE IF ~is_subscription_enabled THEN "True"
    ELSE LET limits == get_subscription_limits_faulted(user_id, team_id, fault)
             current_month == MonthOf(now)
             monthly_usage == UsageCount(usage, user_id, team_id, current_month)
         IN  IF limits.limit.inf THEN "True"
             ELSE IF fault = "usage" THEN "False"
             ELSE IF monthly_usage < limits.limit.n THEN "True" ELSE "False"

NoStats ==
    [kind |-> "None", current_usage |-> 0, limit |-> Finite(0), status |-> ABSENT,
     tier |-> ABSENT]

\* get_usage_stats when reads of the store may raise
get_usage_stats(user_id, team_id, fault) ==
    IF ~is_enabled(USAGE_TRACKING) THEN NoStats
    ELSE IF ~is_subscription_enabled
    THEN [kind |-> "dict", current_usage |-> 0, limit |-> Infinite,
          status |-> "unlimited", tier |-> ABSENT]
    ELSE LET limits == get_subscription_limits_faulted(user_id, team_id, fault)
             current_month == MonthOf(now)
             monthly_usage == UsageCount(usage, user_id, team_id, current_month)
         IN  IF fault = "usage"
             THEN [kind |-> "dict", current_usage |-> 0,
                   limit |-> SUBSCRIPTION_LIMITS["free"], status |-> "free",
                   tier |-> ABSENT]
             ELSE [kind |-> "dict", current_usage |-> monthly_usage,
                   limit |-> limits.limit, status |-> limits.status,
                   tier |-> IF limits.tier = ABSENT THEN "free" ELSE limits.tier]

----------------------------------------------------------------------------
(* The subscription engine as a state machine: the accounts of the store   *)
(* are created, migrated, put on trial and changed, and the clock advances *)

Accounts == {<<"U1", "T1">>, <<"U1", "T2">>, <<"U2", "T1">>}

NewTiers == {"standard", "premium", "invalid_tier"}

\* the clock moves by a tick, by the length of a trial, or by a tick more
ClockSteps == {1, TrialDays * TicksPerDay, TrialDays * TicksPerDay + 1}

NoCall ==
    [op |-> "none", user_id |-> "", team_id |-> "", tier |-> "",
     result |-> "", created |-> FALSE, before |-> << >>]

Call(op, user_id, team_id, tier, result, created) ==
    [op |-> op, user_id |-> user_id, team_id |-> team_id, tier |-> tier,
     result |-> result, created |-> created, before |-> users]

\* the environment of the subscription engine: every setting of the flags its
\* operations read
InitSub ==
    /\ flags \in {f \cup {USAGE_TRACKING, SUBSCRIPTION_LIMITS_FLAG} :
                    f \in SUBSET {SUBSCRIPTION_SYSTEM, TRIAL_PERIOD, SUBSCRIPTION_UPGRADE}}
    /\ users = init_db_users
    /\ usage = init_db_usage(0)
    /\ now = 0
    /\ last = NoCall
    /\ ops = 0
    /\ deliveries = << >>
    /\ disk = {}
    /\ cookies = NoCookies

GetUserStatus(user_id, team_id) ==
    /\ ops < MaxOps
    /\ users' = get_user_status(users, user_id, team_id)
    /\ last' = Call("get_user_status", user_id, team_id, "", "",
                    ~HasUser(users, user_id, team_id))
    /\ ops' = ops + 1
    /\ UNCHANGED <<cookies, deliveries, disk, flags, usage, now>>

MigrateSubscriptionSchema ==
    /\ ops < MaxOps
    /\ users' = migrate_subscription_schema(users, now)
    /\ last' = Call("migrate_subscription_schema", "", "", "", "True", FALSE)
    /\ ops' = ops + 1
    /\ UNCHANGED <<cookies, deliveries, disk, flags, usage, now>>

InitializeTrialPeriod(user_id, team_id) ==
    /\ ops < MaxOps
    /\ users' = initialize_trial_period(users, user_id, team_id, now)
    /\ last' = Call("initialize_trial_period", user_id, team_id, "", "True", FALSE)
    /\ ops' = ops + 1
    /\ UNCHANGED <<cookies, deliveries, disk, flags, usage, now>>

HandleSubscriptionChange(user_id, team_id, new_tier) ==
    /\ ops < MaxOps
    /\ users' = handle_subscription_change(user_id, team_id, new_tier)
    /\ last' = Call("handle_subscription_change", user_id, team_id, new_tier,
                    handle_subscription_change_result, FALSE)
    /\ ops' = ops + 1
    /\ UNCHANGED <<cookies, deliveries, disk, flags, usage, now>>

AdvanceClock(d) ==
    /\ ops < MaxOps
    /\ now' = now + d
    /\ last' = NoCall
    /\ ops' = ops + 1
    /\ UNCHANGED <<cookies, deliveries, disk, flags, users, usage>>

NextSub ==
    \/ \E a \in Accounts : GetUserStatus(a[1], a[2])
    \/ MigrateSubscriptionSchema
    \/ \E a \in Accounts : InitializeTrialPeriod(a[1], a[2])
    \/ \E a \in Accounts, tier \in NewTiers : HandleSubscriptionChange(a[1], a[2], tier)
    \/ \E d \in ClockSteps : AdvanceClock(d)

SubSpec == InitSub /\ [][NextSub]_vars

----------------------------------------------------------------------------
(* Claims on the subscription engine, checked under SubSpec *)

PaidTiers == {"standard", "premium"}

\* the last call was handle_subscription_change on an account of the store
ChangedAccount ==
    /\ last.op = "handle_subscription_change"
    /\ HasUser(last.before, last.user_id, last.team_id)

\* after the last call the account reads as an active subscription of last.tier
ReadsActive ==
    LET limits == get_subscription_limits(last.user_id, last.team_id)
    IN  /\ limits.kind = "dict"
        /\ limits.status = "active"
        /\ limits.tier = last.tier
        /\ limits.limit = (IF last.tier = "standard" THEN Finite(100) ELSE Finite(1000))
        /\ ~check_trial_status(users, last.user_id, last.team_id, now).in_trial

\* C6 as stated: for any account, in trial or not, handle_subscription_change to
\* standard or premium followed immediately by get_subscription_limits returns
\* status active, that tier and that tier's limit, and the account is no longer
\* reported in trial.
C6_ChangeThenLimits_AsStated ==
    (ChangedAccount /\ last.tier \in PaidTiers) => ReadsActive

\* C6 amended: the same, when the SUBSCRIPTION_SYSTEM and SUBSCRIPTION_UPGRADE
\* flags are enabled (with either disabled the change is skipped and returns
\* None or False).
C6_ChangeThenLimits ==
    (/\ ChangedAccount
     /\ last.tier \in PaidTiers
     /\ is_enabled(SUBSCRIPTION_SYSTEM)
     /\ is_enabled(SUBSCRIPTION_UPGRADE)) => ReadsActive

\* an account that was reported in trial has been changed to a paid tier
C6_Witness ==
    /\ ChangedAccount
    /\ last.tier = "premium"
    /\ last.result = "True"
    /\ is_trial_enabled
    /\ check_trial_status(last.before, last.user_id, last.team_id, now).in_trial
    /\ ReadsActive

\* C7: handle_subscription_change with a tier outside {standard, premium} fails
\* with an InvalidTier error raised to the caller instead of reporting success
\* (stated for the case where the operation is enabled and the account exists).
C7_InvalidTierRaises ==
    (/\ ChangedAccount
     /\ last.tier \notin PaidTiers
     /\ is_enabled(SUBSCRIPTION_SYSTEM)
     /\ is_enabled(SUBSCRIPTION_UPGRADE)) => last.result = "raise InvalidTier"

\* C8: a subscription change requested with an invalid tier leaves the account
\* record unchanged (status, tier, start and end dates as before the call).
C8_InvalidTierLeavesAccount ==
    (ChangedAccount /\ last.tier \notin PaidTiers) =>
        FirstUser(users, last.user_id, last.team_id)
            = FirstUser(last.before, last.user_id, last.team_id)

\* the trial window of a document has ended: the window check_trial_status
\* computes from trial_start_date, or the trial_end the document records
TrialWindowEnded(user) ==
    \/ /\ user.trial_start_date.kind = "time"
       /\ now >= user.trial_start_date.at + TrialDays * TicksPerDay
    \/ /\ user.trial_end.kind = "time"
       /\ now >= user.trial_end.at

\* C9: with trial enabled, an account whose trial window has ended is not
\* reported in trial by check_trial_status or get_subscription_limits, and the
\* days_remaining of an account reported in trial is never negative.
C9_TrialEnds ==
    is_trial_enabled =>
        \A a \in Accounts :
            HasUser(users, a[1], a[2]) =>
                LET user == FirstUser(users, a[1], a[2])
                    trial_status == check_trial_status(users, a[1], a[2], now)
                    limits == get_subscription_limits(a[1], a[2])
                IN  /\ TrialWindowEnded(user) =>
                        (~trial_status.in_trial /\ limits.status # "trial")
                    /\ trial_status.in_trial => trial_status.days_remaining >= 0

\* C10: for a brand-new (user_id, team_id), the account first contact has just
\* created, get_subscription_limits returns status trial with an infinite limit
\* when the trial feature is enabled, and status free with limit 10 when not
\* (stated with the subscription system enabled).
C10_BrandNewLimits ==
    (/\ last.op = "get_user_status"
     /\ last.created
     /\ is_enabled(SUBSCRIPTION_SYSTEM)) =>
        LET limits == get_subscription_limits(last.user_id, last.team_id)
        IN  IF is_trial_enabled
            THEN limits.status = "trial" /\ limits.limit = Infinite
            ELSE limits.status = "free" /\ limits.limit = Finite(10)

\* C12: after initialize_trial_period on an account, check_trial_status reports
\* in_trial with days_remaining at most 7 and get_subscription_limits reports an
\* infinite limit with status trial (stated with the trial feature enabled).
C12_TrialInitialized ==
    (/\ last.op = "initialize_trial_period"
     /\ HasUser(last.before, last.user_id, last.team_id)
     /\ is_trial_enabled) =>
        LET trial_status == check_trial_status(users, last.user_id, last.team_id, now)
            limits == get_subscription_limits(last.user_id, last.team_id)
        IN  /\ trial_status.in_trial
            /\ trial_status.days_remaining <= TRIAL_PERIOD_DAYS
            /\ limits.limit = Infinite
            /\ limits.status = "trial"

\* the last call changed an account of the store to the standard tier
ChangedToStandard == ChangedAccount /\ last.tier = "standard"

C15_FlatRenewal ==
    /\ (ChangedAccount /\ last.result = "True") =>
           LET user == FirstUser(users, last.user_id, last.team_id)
           IN  /\ user.subscription_start_date = At(now)
               /\ user.subscription_end_date = At(now + SubscriptionDays * TicksPerDay)
    /\ \A i \in 1..Len(users) :
           users[i].subscription_start_date.kind = "time" =>
               users[i].subscription_end_date
                   = At(users[i].subscription_start_date.at
                            + SubscriptionDays * TicksPerDay)

\* a premium account with time left on its period has been downgraded to
\* standard at a later time
C15_Witness ==
    /\ ChangedAccount
    /\ last.result = "True"
    /\ last.tier = "standard"
    /\ LET before == FirstUser(last.before, last.user_id, last.team_id)
       IN  /\ before.subscription_tier = "premium"
           /\ before.subscription_end_date.kind = "time"
           /\ before.subscription_end_date.at > now
           /\ before.subscription_start_date.at < now
    /\ FirstUser(users, last.user_id, last.team_id).subscription_end_date
           = At(now + SubscriptionDays * TicksPerDay)

\* C28: migrate_subscription_schema changes only the records that lack
\* subscription_status: a record that already has subscription fields is
\* unchanged by a migration run, also when another record of the same user_id in
\* another team is migrated in that run.
C28_MigrationFrame ==
    last.op = "migrate_subscription_schema" =>
        /\ Len(users) = Len(last.before)
        /\ \A i \in 1..Len(last.before) :
               last.before[i].subscription_status # ABSENT =>
                   users[i] = last.before[i]

----------------------------------------------------------------------------
(* The quota read of the subscription engine, applied to the stores the     *)
(* program can hold: an account in each of the shapes the operations above  *)
(* give it, with a number of usage documents at and around every limit      *)

\* app.record_usage: the users table after the call
record_usage_users(us, user_id, team_id) == get_user_status(us, user_id, team_id)

\* app.record_usage: the usage table after the call
record_usage(ug, user_id, team_id, t) == UsageInsert(ug, user_id, team_id, MonthOf(t))

FirstContact == get_user_status(init_db_users, "U1", "T1")

AccountShapes ==
    {init_db_users, FirstContact,
     migrate_subscription_schema(FirstContact, 0),
     initialize_trial_period(FirstContact, "U1", "T1", 0)}
    \cup {update_subscription(FirstContact, "U1", "T1", tier, "active", 0) :
            tier \in NewTiers}

FiniteLimits == {SUBSCRIPTION_LIMITS[k].n : k \in {"free", "standard", "premium"}}

BoundaryCounts == {0} \cup FiniteLimits \cup {n - 1 : n \in FiniteLimits}

\* n usage documents of U1 in T1 in the month of time 0, beside init_db's
UsageOf(n) ==
    IF n = 0 THEN init_db_usage(0)
    ELSE [x \in DOMAIN init_db_usage(0) \cup {UsageKey("U1", "T1", MonthOf(0))} |->
            IF x = UsageKey("U1", "T1", MonthOf(0)) THEN n ELSE init_db_usage(0)[x]]

InitLimit ==
    /\ flags \in {f \cup {USAGE_TRACKING, SUBSCRIPTION_UPGRADE} :
                    f \in SUBSET {SUBSCRIPTION_SYSTEM, TRIAL_PERIOD, SUBSCRIPTION_LIMITS_FLAG}}
    /\ users \in AccountShapes
    /\ usage \in {UsageOf(n) : n \in BoundaryCounts}
    /\ now = 0
    /\ last = NoCall
    /\ ops = 0
    /\ deliveries = << >>
    /\ disk = {}
    /\ cookies = NoCookies

RecordUsage(user_id, team_id) ==
    /\ ops < MaxLimitOps
    /\ users' = record_usage_users(users, user_id, team_id)
    /\ usage' = record_usage(usage, user_id, team_id, now)
    /\ last' = Call("record_usage", user_id, team_id, "", "", FALSE)
    /\ ops' = ops + 1
    /\ UNCHANGED <<cookies, deliveries, disk, flags, now>>

NextMonth ==
    /\ ops < MaxLimitOps
    /\ now' = now + TicksPerMonth
    /\ last' = NoCall
    /\ ops' = ops + 1
    /\ UNCHANGED <<cookies, deliveries, disk, flags, users, usage>>

NextLimit ==
    \/ \E a \in Accounts : RecordUsage(a[1], a[2])
    \/ NextMonth

LimitSpec == InitLimit /\ [][NextLimit]_vars

\* what the claim says check_usage_limit returns for an account
ExpectedCheck(user_id, team_id) ==
    LET limit == get_subscription_limits(user_id, team_id).limit
        count == UsageCount(usage, user_id, team_id, MonthOf(now))
    IN  IF limit.inf THEN "True"
        ELSE IF count >= limit.n THEN "False" ELSE "True"

C20_FailOpen ==
    ~is_enabled(SUBSCRIPTION_SYSTEM) =>
        \A a \in Accounts : check_usage_limit(a[1], a[2]) = "True"

----------------------------------------------------------------------------
(* The reads of the subscription engine as a state machine: limits, usage   *)
(* check, usage statistics and expiry warning are read from the stores the  *)
(* program can hold, between subscription changes and steps of the clock.   *)
(* A read may meet a store whose access raises.                             *)

MaxReadOps == 3

\* the clock moves by a tick, or to the day before the expiry warning starts
ExpirySteps == {1, (SubscriptionDays - ExpiryWarningDays - 1) * TicksPerDay}

Read(op, user_id, team_id, fault, result) ==
    [op |-> op, user_id |-> user_id, team_id |-> team_id, tier |-> "",
     result |-> result, created |-> FALSE, before |-> users,
     usage_before |-> usage, fault |-> fault]

InitRead ==
    /\ flags \in {f \cup {TRIAL_PERIOD, SUBSCRIPTION_UPGRADE} :
                    f \in SUBSET {SUBSCRIPTION_SYSTEM, SUBSCRIPTION_LIMITS_FLAG,
                                  USAGE_TRACKING}}
    /\ users \in AccountShapes
    /\ usage = UsageOf(SUBSCRIPTION_LIMITS["free"].n)
    /\ now = 0
    /\ last = NoCall
    /\ ops = 0
    /\ deliveries = << >>
    /\ disk = {}
    /\ cookies = NoCookies

GetSubscriptionLimits(user_id, team_id, fault) ==
    /\ users' = get_subscription_limits_users(users, user_id, team_id)
    /\ last' = Read("get_subscription_limits", user_id, team_id, fault,
                    get_subscription_limits_faulted(user_id, team_id, fault))
    /\ UNCHANGED <<cookies, deliveries, disk, flags, usage, now, ops>>

CheckUsageLimit(user_id, team_id, fault) ==
    /\ last' = Read("check_usage_limit", user_id, team_id, fault,
                    check_usage_limit_faulted(user_id, team_id, fault))
    /\ UNCHANGED <<cookies, deliveries, disk, flags, users, usage, now, ops>>

GetUsageStats(user_id, team_id, fault) ==
    /\ last' = Read("get_usage_stats", user_id, team_id, fault,
                    get_usage_stats(user_id, team_id, fault))
    /\ UNCHANGED <<cookies, deliveries, disk, flags, users, usage, now, ops>>

CheckSubscriptionExpiry(user_id, team_id) ==
    /\ last' = Read("check_subscription_expiry", user_id, team_id, "none",
                    check_subscription_expiry(user_id, team_id))
    /\ UNCHANGED <<cookies, deliveries, disk, flags, users, usage, now, ops>>

ChangeSubscription(user_id, team_id, new_tier) ==
    /\ ops < MaxReadOps
    /\ HandleSubscriptionChange(user_id, team_id, new_tier)

Tick(d) ==
    /\ ops < MaxReadOps
    /\ AdvanceClock(d)

NextRead ==
    \/ \E a \in Accounts, fault \in StoreFaults :
          GetSubscriptionLimits(a[1], a[2], fault)
    \/ \E a \in Accounts, fault \in StoreFaults : CheckUsageLimit(a[1], a[2], fault)
    \/ \E a \in Accounts, fault \in StoreFaults : GetUsageStats(a[1], a[2], fault)
    \/ \E a \in Accounts : CheckSubscriptionExpiry(a[1], a[2])
    \/ \E a \in Accounts, tier \in PaidTiers : ChangeSubscription(a[1], a[2], tier)
    \/ \E d \in ExpirySteps : Tick(d)

ReadSpec == InitRead /\ [][NextRead]_vars

\* the last call was a get_subscription_limits, met by no fault, for a
\* (user_id, team_id) that had no record
LimitsOfNoAccount ==
    /\ last.op = "get_subscription_limits"
    /\ last.fault = "none"
    /\ ~HasUser(last.before, last.user_id, last.team_id)

\* the call answered as for the free tier and left both tables as they were
FreeAndUntouched ==
    /\ last.result.kind = "dict"
    /\ last.result.limit = Finite(10)
    /\ last.result.status = "free"
    /\ users = last.before
    /\ usage = last.usage_before

C19_ReadsFailSoft ==
    (/\ last.op \in {"get_subscription_limits", "check_usage_limit", "get_usage_stats"}
     /\ last.fault # "none"
     /\ {SUBSCRIPTION_SYSTEM, SUBSCRIPTION_LIMITS_FLAG, USAGE_TRACKING} \subseteq flags)
        => CASE last.op = "get_subscription_limits" ->
                    /\ last.result.limit = SUBSCRIPTION_LIMITS["free"]
                    /\ last.result.status = "free"
             [] last.op = "check_usage_limit" -> last.result = "True"
             [] last.op = "get_usage_stats" ->
                    /\ last.result.current_usage = 0
                    /\ last.result.limit = SUBSCRIPTION_LIMITS["free"]
                    /\ last.result.status = "free"

----------------------------------------------------------------------------
(* slack_oauth.py and the web endpoints of app.py: the login through Slack, *)
(* the session check and the two protected endpoints                        *)

\* os.getenv("JWT_SECRET") is set: the variable is kept with the settings of
\* the environment
JWT_SECRET == "JWT_SECRET"

\* the cookie slack_oauth_callback sets and the cookie get_current_user reads
CALLBACK_COOKIE == "access_token"
SESSION_COOKIE == "session"

\* the lifetime of a token made by create_jwt: timedelta(days=1)
TokenDays == 1

\* slack_oauth.create_jwt: the token encodes the claims sub, email, name and
\* exp, signed with the secret
create_jwt(user_info, t) ==
    [kind |-> "jwt", sub |-> user_info.id, email |-> user_info.email,
     exp |-> t + TokenDays * TicksPerDay]

\* the claims a token made by create_jwt decodes to
Payload(token) ==
    [sub |-> token.sub, email |-> token.email, name |-> token.sub,
     exp |-> token.exp]

\* the answer of an endpoint: the status, whether the pipeline (download,
\* extraction, summarization) was started, and who was authenticated
Answer(status, detail, pipeline) ==
    [status |-> status, detail |-> detail, pipeline |-> pipeline]

\* slack_oauth.verify_token: "raised" when the secret is missing, the token is
\* not a signed token or has expired, else "ok"
verify_token(token, t) ==
    IF JWT_SECRET \notin flags THEN "raised"
    ELSE IF token.kind # "jwt" THEN "raised"
    ELSE IF token.exp < t THEN "raised"
    ELSE "ok"

\* app.get_current_user: the answer 401, or 200 when the request goes on to the
\* endpoint
get_current_user(jar, t) ==
    IF jar[SESSION_COOKIE] = NoToken THEN Answer(401, "Not authenticated", FALSE)
    ELSE IF verify_token(jar[SESSION_COOKIE], t) # "ok"
    THEN Answer(401, "Invalid session", FALSE)
    ELSE Answer(200, "", FALSE)

\* app.dashboard: user["slack_id"] and user["email"] are read from the claims
\* of the token; a missing key raises and the request is answered 500
dashboard(jar, t) ==
    IF get_current_user(jar, t).status # 200 THEN get_current_user(jar, t)
    ELSE IF {"slack_id", "email"} \subseteq DOMAIN Payload(jar[SESSION_COOKIE])
    THEN Answer(200, "authenticated", FALSE)
    ELSE Answer(500, "Internal Server Error", FALSE)

\* app.process_pdf: every exception of the body, the HTTPException(400) of a
\* failed download and the missing key user["slack_id"] included, is answered
\* 500; stage is where the pipeline stops
process_pdf(jar, t, stage) ==
    IF get_current_user(jar, t).status # 200 THEN get_current_user(jar, t)
    ELSE IF stage # "ok" THEN Answer(500, stage, TRUE)
    ELSE IF "slack_id" \in DOMAIN Payload(jar[SESSION_COOKIE])
    THEN Answer(200, "success", TRUE)
    ELSE Answer(500, "slack_id", TRUE)

\* app.slack_oauth_callback: handle_slack_oauth raises when Slack refuses the
\* code or the secret is missing, and the callback answers 400; else the user
\* is stored and the redirect to /dashboard carries the cookie
CallbackSucceeds(slack_ok) == slack_ok /\ JWT_SECRET \in flags

slack_oauth_callback_users(us, user_info, slack_ok) ==
    IF CallbackSucceeds(slack_ok)
    THEN get_user_status_email(us, user_info.id, user_info.email, user_info.team)
    ELSE us

slack_oauth_callback_cookies(jar, user_info, slack_ok, t) ==
    IF CallbackSucceeds(slack_ok)
    THEN [jar EXCEPT ![CALLBACK_COOKIE] = create_jwt(user_info, t)]
    ELSE jar

slack_oauth_callback(slack_ok) ==
    IF CallbackSucceeds(slack_ok) THEN Answer(307, "/dashboard", FALSE)
    ELSE Answer(400, "OAuth callback error", FALSE)

----------------------------------------------------------------------------
(* The accounts and the sessions as a state machine: users log in through   *)
(* Slack, are contacted on the message path, change subscription, and       *)
(* browsers and other clients call the protected endpoints                  *)

MaxAccountOps == 3

\* what Slack reports of the user who logs in; U1 changes email
Identities ==
    {[id |-> "U1", email |-> "a@example.com", team |-> "T1"],
     [id |-> "U1", email |-> "b@example.com", team |-> "T1"],
     [id |-> "U1", email |-> "a@example.com", team |-> "T2"],
     [id |-> "U2", email |-> "c@example.com", team |-> "T1"]}

\* the session cookies a client can present: none, a string that is no
\* token, and the token the callback set under its own name
SessionChoices == {"none", "garbage", "callback"}

SessionValue(choice) ==
    CASE choice = "none" -> NoToken
      [] choice = "garbage" -> Garbage
      [] OTHER -> cookies[CALLBACK_COOKIE]

PipelineStages == {"ok", "download", "extract", "summarize"}

WebCall(op, result) ==
    [op |-> op, user_id |-> "", team_id |-> "", tier |-> "",
     result |-> result, created |-> FALSE, before |-> users,
     jar |-> cookies, at |-> now]

InitAccount ==
    /\ flags \in {FlagNames, FlagNames \cup {JWT_SECRET}}
    /\ users = init_db_users
    /\ usage = init_db_usage(0)
    /\ now = 0
    /\ last = NoCall
    /\ ops = 0
    /\ deliveries = << >>
    /\ disk = {}
    /\ cookies = NoCookies

\* GET /slack/oauth/callback
SlackOauthCallback(user_info, slack_ok) ==
    /\ ops < MaxAccountOps
    /\ users' = slack_oauth_callback_users(users, user_info, slack_ok)
    /\ cookies' = slack_oauth_callback_cookies(cookies, user_info, slack_ok, now)
    /\ last' = [WebCall("slack_oauth_callback", slack_oauth_callback(slack_ok))
                   EXCEPT !.user_id = user_info.id, !.team_id = user_info.team]
    /\ ops' = ops + 1
    /\ UNCHANGED <<flags, usage, now, deliveries, disk>>

\* the first contact on the message path: get_user_status without an email
Contact(user_id, team_id) ==
    /\ ops < MaxAccountOps
    /\ users' = get_user_status_email(users, user_id, ABSENT, team_id)
    /\ last' = Call("get_user_status", user_id, team_id, "", "",
                    ~HasUser(users, user_id, team_id))
    /\ ops' = ops + 1
    /\ UNCHANGED <<flags, usage, now, deliveries, disk, cookies>>

AccountChange(user_id, team_id, new_tier) ==
    /\ ops < MaxAccountOps
    /\ HandleSubscriptionChange(user_id, team_id, new_tier)

AccountMigration ==
    /\ ops < MaxAccountOps
    /\ MigrateSubscriptionSchema

AccountTrial(user_id, team_id) ==
    /\ ops < MaxAccountOps
    /\ InitializeTrialPeriod(user_id, team_id)

\* a client sets the session cookie it sends
PresentSession(choice) ==
    /\ ops < MaxAccountOps
    /\ SessionValue(choice) # cookies[SESSION_COOKIE]
    /\ cookies' = [cookies EXCEPT ![SESSION_COOKIE] = SessionValue(choice)]
    /\ last' = NoCall
    /\ ops' = ops + 1
    /\ UNCHANGED <<flags, users, usage, now, deliveries, disk>>

\* GET /dashboard with the cookies of the browser
Dashboard ==
    /\ last' = WebCall("dashboard", dashboard(cookies, now))
    /\ UNCHANGED <<flags, users, usage, now, ops, deliveries, disk, cookies>>

\* POST /process-pdf with the cookies of the browser
ProcessPdf(stage) ==
    /\ last' = WebCall("process_pdf", process_pdf(cookies, now, stage))
    /\ UNCHANGED <<flags, users, usage, now, ops, deliveries, disk, cookies>>

\* more than the lifetime of a token passes
TokenLifetimePasses ==
    /\ ops < MaxAccountOps
    /\ now' = now + TokenDays * TicksPerDay + 1
    /\ last' = NoCall
    /\ ops' = ops + 1
    /\ UNCHANGED <<flags, users, usage, deliveries, disk, cookies>>

NextAccount ==
    \/ \E user_info \in Identities, slack_ok \in BOOLEAN :
          SlackOauthCallback(user_info, slack_ok)
    \/ \E a \in Accounts : Contact(a[1], a[2])
    \/ \E a \in Accounts, new_tier \in {"standard", "invalid_tier"} :
          AccountChange(a[1], a[2], new_tier)
    \/ AccountMigration
    \/ \E a \in Accounts : AccountTrial(a[1], a[2])
    \/ \E choice \in SessionChoices : PresentSession(choice)
    \/ Dashboard
    \/ \E stage \in PipelineStages : ProcessPdf(stage)
    \/ TokenLifetimePasses

AccountSpec == InitAccount /\ [][NextAccount]_vars

----------------------------------------------------------------------------
(* Claims on the accounts and the sessions, checked under AccountSpec *)

OneRecordEach ==
    \A i, j \in 1..Len(users) :
        (users[i].user_id = users[j].user_id /\ users[i].team_id = users[j].team_id)
            => i = j

\* a call that contacts an account: get_user_status itself or the callback
\* that stores the user who logged in
Contacts ==
    \/ last.op = "get_user_status"
    \/ last.op = "slack_oauth_callback" /\ last.result.status = 307

ContactSettled ==
    Contacts =>
        /\ Cardinality(Matching(users, last.user_id, last.team_id)) = 1
        /\ HasUser(last.before, last.user_id, last.team_id)
              => /\ Len(users) = Len(last.before)
                 /\ \A i \in 1..Len(users) :
                       /\ users[i].user_id = last.before[i].user_id
                       /\ users[i].team_id = last.before[i].team_id
                       /\ users[i].status = last.before[i].status

RecordsKept ==
    /\ Len(users') >= Len(users)
    /\ \A i \in 1..Len(users) :
          /\ users'[i].user_id = users[i].user_id
          /\ users'[i].team_id = users[i].team_id

\* C22: every (user_id, team_id) that has been contacted has exactly one
\* record in the users table: no two records carry the same pair, a contact
\* leaves exactly one record of its pair, a repeated contact returns the
\* record that exists (the table does not grow, keys and status are kept),
\* and no step removes or re-keys a record
C22_OneRecordPerAccount ==
    /\ [](OneRecordEach /\ ContactSettled)
    /\ [][RecordsKept]_vars

\* C22 witness: a user who was contacted on the message path has logged in
\* twice with different emails; the second login met the existing record
C22_Witness ==
    /\ last.op = "slack_oauth_callback"
    /\ last.result.status = 307
    /\ HasUser(last.before, last.user_id, last.team_id)
    /\ FirstUser(last.before, last.user_id, last.team_id).email \notin
          {ABSENT, FirstUser(users, last.user_id, last.team_id).email}

\* the request was made by the browser with the cookie a successful callback
\* set, before the token expired
AfterLogin ==
    /\ last.jar[CALLBACK_COOKIE].kind = "jwt"
    /\ last.jar[CALLBACK_COOKIE].exp >= last.at

ProtectedRequest == last.op \in {"dashboard", "process_pdf"}

\* the request carried no session token or one that does not verify
NoValidSession ==
    \/ last.jar[SESSION_COOKIE] = NoToken
    \/ verify_token(last.jar[SESSION_COOKIE], last.at) # "ok"

\* C29: a request to a protected endpoint made with the cookie a successful
\* callback set is not answered 401, and a request with no session token or
\* an invalid one is answered 401 and runs no pipeline work
C29_LoginAuthenticates ==
    ProtectedRequest =>
        /\ AfterLogin => last.result.status # 401
        /\ NoValidSession => (last.result.status = 401 /\ ~last.result.pipeline)

----------------------------------------------------------------------------
(* app.py: the quota of the message path *)

MONTHLY_LIMIT == 10

\* app.check_usage_limit, on the users table get_user_status has left
app_check_usage_limit(us, ug, user_id, team_id, t) ==
    LET user == FirstUser(get_user_status(us, user_id, team_id), user_id, team_id)
    IN  \/ user.status = "pro"
        \/ UsageCount(ug, user_id, team_id, MonthOf(t)) < MONTHLY_LIMIT

\* the users the /reset_limits command accepts
ADMIN_USER_IDS == {"ADMIN_USER_ID"}

\* reset_limits as it would be without the test of the user
reset_limits_anyone(ug, user_id) == EmptyUsage

\* app.reset_limits: the usage table after the command of user_id
reset_limits(ug, user_id) ==
    IF user_id \notin ADMIN_USER_IDS THEN ug ELSE EmptyUsage

\* C27: the admit/deny decision of the message path (app.check_usage_limit)
\* agrees with the subscription engine's check_usage_limit for the same account
\* and the same store (stated with the engine's flags enabled; checked under
\* LimitSpec).
C27_PathAgreesWithEngine ==
    (is_enabled(SUBSCRIPTION_SYSTEM) /\ is_enabled(SUBSCRIPTION_LIMITS_FLAG)) =>
        \A a \in Accounts :
            app_check_usage_limit(users, usage, a[1], a[2], now)
                <=> (check_usage_limit(a[1], a[2]) = "True")

----------------------------------------------------------------------------
(* The events delivered to the bot *)

File(id, filetype) == [id |-> id, filetype |-> filetype]

Mention(user, team, has_files, files) ==
    [json_ok |-> TRUE, challenge |-> FALSE, event_type |-> "app_mention",
     user |-> user, team |-> team, has_files |-> has_files, files |-> files]

OnePdf == Mention("U1", "T1", TRUE, <<File("F1", "pdf")>>)
TwoPdfs == Mention("U1", "T1", TRUE, <<File("F1", "pdf"), File("F2", "pdf")>>)
TextAndPdf == Mention("U2", "T1", TRUE, <<File("F3", "txt"), File("F2", "pdf")>>)
NoFiles == Mention("U1", "T1", FALSE, << >>)

Mentions == {OnePdf, TwoPdfs, TextAndPdf, NoFiles}

\* a url_verification handshake that also carries an event, a body that is not
\* JSON, and an event of another type
Challenge == [OnePdf EXCEPT !.challenge = TRUE]
InvalidJson == [NoFiles EXCEPT !.json_ok = FALSE]
OtherEvent == [OnePdf EXCEPT !.event_type = "message"]

Envelopes == Mentions \cup {Challenge, InvalidJson, OtherEvent}

\* what the outside world does to one PDF file: the stage that fails ("ok" when
\* none does: files_info and the download, extract_text_from_pdf,
\* generate_summary, the usage.insert of record_usage, the post of the summary),
\* and whether the post of the apology that follows a failure succeeds
FileOutcomes ==
    {[stage |-> "ok", notice |-> TRUE]}
    \cup [stage : {"download", "extract", "summarize", "record", "post"},
          notice : BOOLEAN]

\* the number of characters extract_text_from_pdf returns for a file
TextLength(id) == IF id = "F1" THEN 8001 ELSE 4000

\* generate_summary(text): the texts sent to the completion API, one request
\* with the whole text
generate_summary(text_len) == <<text_len>>

Msg(kind, file) == [kind |-> kind, file |-> file]

NewDelivery(env, path) ==
    [env |-> env, path |-> path, pc |-> "received", idx |-> 1,
     checked |-> FALSE, admitted |-> FALSE,
     attempted |-> {}, recorded |-> 0, msgs |-> << >>, temp |-> {},
     faults |-> {}, calls |-> << >>,
     escaped |-> FALSE, response |-> "",
     seen |-> {i \in 1..Len(deliveries) : deliveries[i].pc = "done"}]

\* a usage event is recorded for a file as if extraction alone earned it
CountedOnceExtracted(stage) == stage \in {"summarize", "record", "post", "ok"}

\* record_usage has inserted the usage event of a file: the stages before it
\* (download, extraction, generate_summary) and the insert itself have succeeded
Counted(stage) == stage \in {"post", "ok"}

\* the body of the loop over the files for one PDF file, in both handlers: r holds
\* the store, the disk and the delivery d
ProcessFile(r, file, o, t) ==
    LET env == r.d.env
        saved == o.stage \in {"extract", "summarize", "record", "post", "ok"}
        requested == o.stage \in {"summarize", "record", "post", "ok"}
        summarized == o.stage \in {"record", "post", "ok"}
        counted == Counted(o.stage)
    IN  [users |-> IF summarized
                   THEN record_usage_users(r.users, env.user, env.team)
                   ELSE r.users,
         usage |-> IF counted THEN record_usage(r.usage, env.user, env.team, t)
                   ELSE r.usage,
         disk |-> IF saved THEN r.disk \cup {file.id} ELSE r.disk,
         d |-> [r.d EXCEPT
                  !.attempted = @ \cup {file.id},
                  !.recorded = IF counted THEN @ + 1 ELSE @,
                  !.temp = IF saved THEN @ \cup {file.id} ELSE @,
                  !.faults = IF o.stage = "ok" THEN @
                             ELSE @ \cup {<<file.id, o.stage>>},
                  !.calls = IF requested
                            THEN Append(@, [file |-> file.id,
                                            text_len |-> TextLength(file.id),
                                            texts |-> generate_summary(
                                                          TextLength(file.id))])
                            ELSE @,
                  !.msgs = IF o.stage = "ok" THEN Append(@, Msg("summary", file.id))
                           ELSE IF o.notice THEN Append(@, Msg("error", file.id))
                           ELSE @,
                  !.escaped = (o.stage # "ok" /\ ~o.notice)]]

----------------------------------------------------------------------------
(* app.endpoint: POST /slack/events.  The handler awaits only the request  *)
(* body; from there to its return it does not yield.                       *)

RECURSIVE EndpointFiles(_, _, _, _)
EndpointFiles(r, i, oc, t) ==
    IF i > Len(r.d.env.files) \/ r.d.escaped THEN r
    ELSE EndpointFiles(
            IF r.d.env.files[i].filetype # "pdf" THEN r
            ELSE ProcessFile(r, r.d.env.files[i], oc[i], t),
            i + 1, oc, t)

\* endpoint as it would be if it handled the event of the envelope before it
\* looked for a challenge
endpoint_event_first(r, oc, t) ==
    LET env == r.d.env
        answer(x, response) ==
            [x EXCEPT !.d.pc = "done", !.d.response = response]
    IN  IF ~env.json_ok THEN answer(r, "400 Invalid request body")
        ELSE IF env.event_type # "app_mention" \/ ~env.has_files
        THEN answer(r, IF env.challenge THEN "200 challenge" ELSE "200 ok")
        ELSE LET after == EndpointFiles(r, 1, oc, t)
             IN  answer(after, IF after.d.escaped THEN "500 Internal server error"
                               ELSE IF env.challenge THEN "200 challenge"
                               ELSE "200 ok")

\* endpoint as it would be if it answered 200 to a request whose handling raised
endpoint_swallows(r, oc, t) ==
    LET env == r.d.env
        answer(x, response) ==
            [x EXCEPT !.d.pc = "done", !.d.response = response]
    IN  IF ~env.json_ok THEN answer(r, "400 Invalid request body")
        ELSE IF env.challenge THEN answer(r, "200 challenge")
        ELSE IF env.event_type # "app_mention" \/ ~env.has_files
        THEN answer(r, "200 ok")
        ELSE answer(EndpointFiles(r, 1, oc, t), "200 ok")

endpoint(r, oc, t) ==
    LET env == r.d.env
        answer(x, response) ==
            [x EXCEPT !.d.pc = "done", !.d.response = response]
    IN  IF ~env.json_ok THEN answer(r, "400 Invalid request body")
        ELSE IF env.challenge THEN answer(r, "200 challenge")
        ELSE IF env.event_type # "app_mention" \/ ~env.has_files
        THEN answer(r, "200 ok")
        ELSE LET after == EndpointFiles(r, 1, oc, t)
             IN  answer(after, IF after.d.escaped THEN "500 Internal server error"
                               ELSE "200 ok")

----------------------------------------------------------------------------
(* app.handle_mention.  The handler yields at every await of say: a step   *)
(* runs from one await to the next.                                        *)

\* the files from i on, up to and including the first PDF file
RECURSIVE NextPdf(_, _)
NextPdf(files, i) ==
    IF i > Len(files) THEN i
    ELSE IF files[i].filetype = "pdf" THEN i
    ELSE NextPdf(files, i + 1)

\* the finally clause: the temporary files of this handler are removed
Cleanup(r) ==
    [r EXCEPT !.disk = @ \ r.d.temp, !.d.temp = {}, !.d.pc = "done"]

\* the loop over the files from r.d.idx to the next await, or to the end
mention_files(r, o, t) ==
    LET files == r.d.env.files
        i == NextPdf(files, r.d.idx)
    IN  IF i > Len(files) THEN Cleanup(r)
        ELSE LET after == ProcessFile(r, files[i], o, t)
             IN  IF after.d.escaped THEN Cleanup(after)
                 ELSE [after EXCEPT !.d.idx = i + 1, !.d.pc = "awaiting"]

\* from the call of the handler to its first await
handle_mention(r, say_ok, o, t) ==
    LET env == r.d.env
        checked == [r EXCEPT
                      !.users = get_user_status(r.users, env.user, env.team),
                      !.d.checked = TRUE,
                      !.d.admitted =
                          app_check_usage_limit(r.users, r.usage, env.user, env.team, t)]
        said(kind) ==
            Cleanup([checked EXCEPT
                       !.d.msgs = IF say_ok THEN Append(@, Msg(kind, "")) ELSE @,
                       !.d.escaped = ~say_ok])
    IN  IF ~checked.d.admitted THEN said("limit")
        ELSE IF ~env.has_files THEN said("upload")
        ELSE mention_files(checked, o, t)

----------------------------------------------------------------------------
(* The message path as a state machine *)

Run(i) == [users |-> users, usage |-> usage, disk |-> disk, d |-> deliveries[i]]

Ran(i, r) ==
    /\ users' = r.users
    /\ usage' = r.usage
    /\ disk' = r.disk
    /\ deliveries' = [deliveries EXCEPT ![i] = r.d]
    /\ UNCHANGED <<cookies, flags, now, last, ops>>

\* the store init_db leaves, after U1 has had all but one of the summaries the
\* message path allows it this month
Init ==
    /\ flags = {}
    /\ users = FirstContact
    /\ usage = UsageOf(MONTHLY_LIMIT - 1)
    /\ now = 0
    /\ last = NoCall
    /\ ops = 0
    /\ deliveries = << >>
    /\ disk = {}
    /\ cookies = NoCookies

ReceiveRequest(env) ==
    /\ Len(deliveries) < MaxDeliveries
    /\ deliveries' = Append(deliveries, NewDelivery(env, "endpoint"))
    /\ UNCHANGED <<cookies, flags, users, usage, now, last, ops, disk>>

ReceiveMention(env) ==
    /\ Len(deliveries) < MaxDeliveries
    /\ deliveries' = Append(deliveries, NewDelivery(env, "mention"))
    /\ UNCHANGED <<cookies, flags, users, usage, now, last, ops, disk>>

Endpoint(i) ==
    /\ deliveries[i].path = "endpoint"
    /\ deliveries[i].pc = "received"
    /\ \E oc \in [1..Len(deliveries[i].env.files) -> FileOutcomes] :
          Ran(i, endpoint(Run(i), oc, now))

HandleMention(i) ==
    /\ deliveries[i].path = "mention"
    /\ deliveries[i].pc = "received"
    /\ \E say_ok \in BOOLEAN, o \in FileOutcomes :
          Ran(i, handle_mention(Run(i), say_ok, o, now))

ResumeMention(i) ==
    /\ deliveries[i].path = "mention"
    /\ deliveries[i].pc = "awaiting"
    /\ \E o \in FileOutcomes : Ran(i, mention_files(Run(i), o, now))

MonthPasses ==
    /\ MonthOf(now) < MaxMonths
    /\ now' = now + TicksPerMonth
    /\ UNCHANGED <<cookies, flags, users, usage, last, ops, deliveries, disk>>

Next ==
    \/ \E env \in Envelopes : ReceiveRequest(env)
    \/ \E env \in Mentions : ReceiveMention(env)
    \/ \E i \in 1..Len(deliveries) : Endpoint(i)
    \/ \E i \in 1..Len(deliveries) : HandleMention(i)
    \/ \E i \in 1..Len(deliveries) : ResumeMention(i)
    \/ MonthPasses

Spec == Init /\ [][Next]_vars

----------------------------------------------------------------------------
(* The message path with the /reset_limits command, request by request: the *)
(* handshake, a body that is not JSON, events without files and events with *)
(* one PDF file on both paths, and two PDF files on the endpoint            *)

MaxRequests == 1

RequestEnvelopes == {Challenge, InvalidJson, OtherEvent, NoFiles, OnePdf, TwoPdfs}

MentionEvents == {NoFiles, OnePdf}

\* the users that send the /reset_limits command
Commanders == {"U1"} \cup ADMIN_USER_IDS

Request(env) ==
    /\ Len(deliveries) < MaxRequests
    /\ ReceiveRequest(env)

MentionEvent(env) ==
    /\ Len(deliveries) < MaxRequests
    /\ ReceiveMention(env)

\* the command up to its await of say
ResetLimits(user_id) ==
    /\ usage' = reset_limits(usage, user_id)
    /\ last' = [op |-> "reset_limits", user_id |-> user_id, team_id |-> "",
                tier |-> "", result |-> "", created |-> FALSE,
                before |-> users, usage_before |-> usage, fault |-> "none"]
    /\ UNCHANGED <<cookies, flags, users, now, ops, deliveries, disk>>

NextRequest ==
    \/ \E env \in RequestEnvelopes : Request(env)
    \/ \E env \in MentionEvents : MentionEvent(env)
    \/ \E i \in 1..Len(deliveries) : Endpoint(i)
    \/ \E i \in 1..Len(deliveries) : HandleMention(i)
    \/ \E i \in 1..Len(deliveries) : ResumeMention(i)
    \/ \E user_id \in Commanders : ResetLimits(user_id)

RequestSpec == Init /\ [][NextRequest]_vars

----------------------------------------------------------------------------
(* Claims on the message path, checked under Spec *)

\* the delivery is an app_mention event that carries files
MentionWithFiles(d) ==
    /\ d.env.json_ok /\ ~d.env.challenge
    /\ d.env.event_type = "app_mention" /\ d.env.has_files

\* nothing of the PDF pipeline has run for the delivery and nothing was posted
NoWork(d) == d.attempted = {} /\ d.recorded = 0 /\ d.msgs = << >>

\* C1: after any sequence or interleaving of app_mention events, the usage events
\* recorded for a (user_id, team_id) in one calendar month do not exceed the
\* account's finite monthly limit.
C1_QuotaNeverExceeded ==
    \A i \in 1..Len(users) :
        users[i].status # "pro" =>
            \A m \in 0..MaxMonths :
                UsageCount(usage, users[i].user_id, users[i].team_id, m) <= MONTHLY_LIMIT

\* C2: for every app_mention event with PDF files the quota check happens before
\* the PDF pipeline starts, and when it denies, no file is downloaded, extracted,
\* summarized or recorded and the user receives only the monthly-limit message.
C2_QuotaCheckBeforePipeline ==
    \A i \in 1..Len(deliveries) :
        LET d == deliveries[i]
        IN  MentionWithFiles(d) =>
                /\ d.attempted # {} => (d.checked /\ d.admitted)
                /\ (d.checked /\ ~d.admitted) =>
                       /\ d.attempted = {} /\ d.recorded = 0
                       /\ \A k \in 1..Len(d.msgs) : d.msgs[k].kind = "limit"

\* C4: an envelope identical to one the events endpoint has already processed is
\* answered {"ok": true} without further work: no file is downloaded or
\* summarized again, no usage event is recorded and no message is posted.
C4_DuplicateIgnored ==
    \A i \in 1..Len(deliveries) : \A j \in deliveries[i].seen :
        LET d == deliveries[i]
        IN  (/\ d.path = "endpoint" /\ deliveries[j].path = "endpoint"
             /\ d.env = deliveries[j].env
             /\ MentionWithFiles(d)
             /\ d.pc = "done") => (d.response = "200 ok" /\ NoWork(d))

\* C5: of two deliveries of the same payload that the events endpoint handles
\* concurrently (the second arrives before the first is answered), at most one
\* observes "not processed" and proceeds to the PDF pipeline.
C5_ConcurrentDuplicates ==
    \A i \in 1..Len(deliveries) : \A j \in 1..Len(deliveries) :
        (/\ i < j /\ i \notin deliveries[j].seen
         /\ deliveries[i].path = "endpoint" /\ deliveries[j].path = "endpoint"
         /\ deliveries[i].env = deliveries[j].env
         /\ MentionWithFiles(deliveries[i]))
            => ~(deliveries[i].attempted # {} /\ deliveries[j].attempted # {})

\* the message has been posted for the delivery
Posted(d, m) == \E k \in 1..Len(d.msgs) : d.msgs[k] = m

\* the lengths of the consecutive 4000-character chunks of a text
RECURSIVE ChunksOf(_)
ChunksOf(n) == IF n <= 4000 THEN <<n>> ELSE <<4000>> \o ChunksOf(n - 4000)

\* C16: a text longer than 4000 characters is summarized as consecutive
\* 4000-character chunks (the last possibly shorter), one summarization request
\* per chunk in chunk order, and a text of at most 4000 characters with exactly
\* one request.
C16_ChunkedSummary ==
    \A i \in 1..Len(deliveries) : \A k \in 1..Len(deliveries[i].calls) :
        deliveries[i].calls[k].texts = ChunksOf(deliveries[i].calls[k].text_len)

\* C17: when the summary of a file has been computed and recording its usage
\* then fails, the summary is still delivered and no error message is sent for
\* that file.
C17_RecordFailureSwallowed ==
    \A i \in 1..Len(deliveries) : \A f \in deliveries[i].attempted :
        <<f, "record">> \in deliveries[i].faults =>
            /\ Posted(deliveries[i], Msg("summary", f))
            /\ ~Posted(deliveries[i], Msg("error", f))

\* C18: when posting the summary to the channel fails, one fallback attempt
\* posts the summary to a DM with the user, and only when that also fails is an
\* error raised to the caller: a handler that has not raised has delivered the
\* summary by DM.
C18_FallbackToDm ==
    \A i \in 1..Len(deliveries) : \A f \in deliveries[i].attempted :
        (<<f, "post">> \in deliveries[i].faults /\ ~deliveries[i].escaped) =>
            Posted(deliveries[i], Msg("summary_dm", f))

\* the PDF files of the event of a delivery
PdfFiles(d) ==
    {d.env.files[k].id : k \in {n \in 1..Len(d.env.files) :
                                   d.env.files[n].filetype = "pdf"}}

\* C26: when the processing of a file fails and the apology that follows fails
\* too, the failure is dropped: the handler does not raise, the remaining files
\* of the event are still processed and the webhook request is not answered with
\* an error.
C26_NoticeFailureDropped ==
    \A i \in 1..Len(deliveries) :
        LET d == deliveries[i]
        IN  (d.pc = "done" /\ d.faults # {}) =>
                /\ ~d.escaped
                /\ d.attempted = PdfFiles(d)
                /\ d.path = "endpoint" => d.response = "200 ok"

\* C30: on both paths, every temporary file written for a downloaded PDF has
\* been removed when the handling of the event has ended.
C30_TempFilesRemoved ==
    \A i \in 1..Len(deliveries) :
        deliveries[i].pc = "done" => deliveries[i].temp \cap disk = {}

----------------------------------------------------------------------------
(* Claims checked under RequestSpec *)

\* the usage table has been emptied by the command of an administrator
ResetByAdmin ==
    /\ last'.op = "reset_limits"
    /\ last'.user_id \in ADMIN_USER_IDS
    /\ UNCHANGED deliveries
    /\ usage' = EmptyUsage

\* the usage table has grown by one event of the event's (user, team, month) for
\* every summary a delivery has completed and recorded in the step
AppendedBySummaries ==
    \E i \in 1..Len(deliveries) :
        LET d == deliveries[i]
            n == deliveries'[i].recorded - d.recorded
            key == UsageKey(d.env.user, d.env.team, MonthOf(now))
        IN  /\ n > 0
            /\ Len(deliveries'[i].calls) - Len(d.calls) >= n
            /\ usage' = [x \in DOMAIN usage \cup {key} |->
                            IF x = key
                            THEN UsageCount(usage, d.env.user, d.env.team,
                                            MonthOf(now)) + n
                            ELSE usage[x]]

Answered(d) == d.path = "endpoint" /\ d.pc = "done"

\* C23: when the JSON envelope posted to the events endpoint contains a
\* challenge, the response is the challenge with status 200 and nothing else
\* happens: no file is processed, no usage event is recorded and no message is
\* posted, even when the envelope also carries an event.
C23_ChallengeEchoed ==
    \A i \in 1..Len(deliveries) :
        LET d == deliveries[i]
        IN  (Answered(d) /\ d.env.json_ok /\ d.env.challenge) =>
                /\ d.response = "200 challenge"
                /\ NoWork(d)
                /\ d.calls = << >> /\ d.temp = {}

\* a handshake that also carries an app_mention event with a PDF file has been
\* answered
C23_Witness ==
    \E i \in 1..Len(deliveries) :
        /\ Answered(deliveries[i])
        /\ deliveries[i].env = Challenge
        /\ deliveries[i].env.has_files
        /\ deliveries[i].response = "200 challenge"

UsageDue(d) ==
    {f \in d.attempted :
        \A stage \in {"download", "extract", "summarize", "record"} :
            <<f, stage>> \notin d.faults}

\* the summarization requests made for a file
RequestsFor(d, f) == {k \in 1..Len(d.calls) : d.calls[k].file = f}

\* C25: a usage event is recorded for a file only after both text extraction and
\* summarization of that file have succeeded; when extraction or summarization
\* fails the file is aborted without retry and neither a usage event nor a
\* summary message is produced for it.
C25_RecordedAfterSummary ==
    \A i \in 1..Len(deliveries) :
        LET d == deliveries[i]
        IN  /\ d.recorded = Cardinality(UsageDue(d))
            /\ \A f \in d.attempted :
                   /\ Cardinality(RequestsFor(d, f)) <= 1
                   /\ <<f, "extract">> \in d.faults => RequestsFor(d, f) = {}
                   /\ (<<f, "extract">> \in d.faults \/ <<f, "summarize">> \in d.faults)
                          => ~Posted(d, Msg("summary", f))

\* of the two files of an event, the summarization of the first has failed and
\* the second has been summarized and recorded
C25_Witness ==
    \E i \in 1..Len(deliveries) :
        LET d == deliveries[i]
        IN  /\ d.pc = "done"
            /\ <<"F1", "summarize">> \in d.faults
            /\ Posted(d, Msg("error", "F1"))
            /\ Posted(d, Msg("summary", "F2"))
            /\ d.recorded = 1

====
